---- MODULE Spec2Model ----
(***************************************************************************)
(* Moving Memories: the workflow store (memoryStore), the step controllers *)
(* (Upload / Enhance / Generate / Complete components), the configuration  *)
(* form and the provider clients, as one state machine.                    *)
(*                                                                         *)
(* Granularity.  The browser runs one task at a time.  Every action below  *)
(* is one such task: a user event handler, a timer callback, or the        *)
(* continuation of an async function after an await, run up to its next    *)
(* await.  A store update re-renders the App synchronously after the task  *)
(* (zustand + useSyncExternalStore); that re-render is the action Commit,  *)
(* and every other action waits for it (Committed).                        *)
(***************************************************************************)
EXTENDS Integers, Sequences, FiniteSets, TLC

VARIABLES
    store,            \* the zustand store (MemoryState)
    ls,               \* localStorage: the three credential entries
    geminiAi,         \* geminiService.ai: the key the client was built with
    isInitialized,    \* App's isInitialized state
    showApiKeyModal,  \* App's showApiKeyModal state
    mounted,          \* which step component is mounted
    view,             \* local state and refs of the mounted component
    tasks,            \* async functions suspended at an await
    timers,           \* pending setTimeout callbacks no ref keeps track of
    uploads,          \* number of files handed to handleFile so far
    retries,          \* number of "Try again" clicks so far
    validationError   \* ApiKeyModal's validationError state

vars == <<store, ls, geminiAi, isInitialized, showApiKeyModal, mounted, view,
          tasks, timers, uploads, retries, validationError>>

(***************************************************************************)
(* Bounds of the model                                                     *)
(***************************************************************************)
MaxUploads == 2
MaxRetries == 1

(***************************************************************************)
(* Values                                                                  *)
(***************************************************************************)
Null == [kind |-> "null"]
Str(s) == [kind |-> "str", s |-> s]
EmptyStr == Str(<<>>)
DataUrl(mime, b64) == [kind |-> "data", mime |-> mime, b64 |-> b64]
HttpUrl(host, of) == [kind |-> "http", host |-> host, of |-> of]
BlobUrl(of) == [kind |-> "blob", of |-> of]
\* The bytes of a medium: who produced them, from which upload
Content(by, n) == [by |-> by, n |-> n]

\* JavaScript truthiness of a nullable string: null and '' are falsy
Truthy(v) == /\ v.kind # "null"
             /\ ~(v.kind = "str" /\ v.s = <<>>)

\* String.prototype.trim on a sequence of characters
IsSpace(c) == c \in {" ", "\n"}
RECURSIVE TrimLeft(_)
TrimLeft(s) == IF s # <<>> /\ IsSpace(Head(s)) THEN TrimLeft(Tail(s)) ELSE s
RECURSIVE TrimRight(_)
TrimRight(s) == IF s # <<>> /\ IsSpace(s[Len(s)])
                THEN TrimRight(SubSeq(s, 1, Len(s) - 1)) ELSE s
Trim(s) == TrimRight(TrimLeft(s))

\* String.prototype.startsWith
StartsWith(s, p) == /\ Len(s) >= Len(p)
                    /\ SubSeq(s, 1, Len(p)) = p

\* String.prototype.includes, for a message written as a sequence of words
Includes(s, w) == \E i \in 1..Len(s) : s[i] = w

(***************************************************************************)
(* The store: initial state and mutators                                   *)
(***************************************************************************)
initialState ==
    [ currentStep            |-> "upload",
      originalImage          |-> Null,
      originalImageUrl       |-> Null,
      originalImageDataUrl   |-> Null,
      enhancedImageUrl       |-> Null,
      enhancedImageCaption   |-> Null,
      videoUrl               |-> Null,
      userNote               |-> EmptyStr,
      motionPrompt           |-> EmptyStr,
      isProcessing           |-> FALSE,
      progress               |-> 0,
      error                  |-> Null,
      apiKey                 |-> Null,
      processingStartTime    |-> Null,
      estimatedTimeRemaining |-> Null ]

setCurrentStep(s, step) ==
    [s EXCEPT !.currentStep = step, !.error = Null]

\* setOriginalImage without "currentStep: 'enhance'"
setOriginalImageNoStep(s, file, url) ==
    [s EXCEPT !.originalImage = file,
              !.originalImageUrl = url,
              !.originalImageDataUrl = url,
              !.enhancedImageUrl = Null,
              !.enhancedImageCaption = Null,
              !.videoUrl = Null,
              !.motionPrompt = EmptyStr,
              !.userNote = EmptyStr,
              !.error = Null]

setOriginalImage(s, file, url) ==
    [s EXCEPT !.originalImage = file,
              !.originalImageUrl = url,
              !.originalImageDataUrl = url,
              !.enhancedImageUrl = Null,
              !.enhancedImageCaption = Null,
              !.videoUrl = Null,
              !.motionPrompt = EmptyStr,
              !.userNote = EmptyStr,
              !.error = Null,
              !.currentStep = "enhance"]

\* setEnhancedImage without "currentStep: 'generate'"
setEnhancedImageNoStep(s, url, caption) ==
    [s EXCEPT !.enhancedImageUrl = url,
              !.enhancedImageCaption = IF Truthy(caption) THEN caption ELSE Null]

\* caption || null
setEnhancedImage(s, url, caption) ==
    [s EXCEPT !.enhancedImageUrl = url,
              !.enhancedImageCaption = IF Truthy(caption) THEN caption ELSE Null,
              !.currentStep = "generate"]

setVideoUrl(s, url) ==
    [s EXCEPT !.videoUrl = url,
              !.currentStep = "complete",
              !.isProcessing = FALSE,
              !.progress = 100]

setUserNote(s, note) == [s EXCEPT !.userNote = note]

setApiKey(s, key) == [s EXCEPT !.apiKey = Str(Trim(key.s))]

clearApiKey(s) == [s EXCEPT !.apiKey = Null]

setMotionPrompt(s, prompt) == [s EXCEPT !.motionPrompt = prompt]

setProcessing(s, isProcessing) == [s EXCEPT !.isProcessing = isProcessing]

\* Math.min and Math.max on integers
MathMin(a, b) == IF a < b THEN a ELSE b
MathMax(a, b) == IF a > b THEN a ELSE b

\* setProgress that stores its argument as it is
setProgressNoClamp(s, progress) == [s EXCEPT !.progress = progress]

setProgress(s, progress) ==
    [s EXCEPT !.progress = MathMax(0, MathMin(100, progress))]

setError(s, error) == [s EXCEPT !.error = error, !.isProcessing = FALSE]

\* processingStartTime: Date.now()
startProcessing(s) ==
    [s EXCEPT !.isProcessing = TRUE,
              !.processingStartTime = [kind |-> "time"],
              !.error = Null,
              !.progress = 0]

completeProcessing(s) ==
    [s EXCEPT !.isProcessing = FALSE,
              !.processingStartTime = Null,
              !.estimatedTimeRemaining = Null,
              !.progress = 100]

clearMedia(s) ==
    [s EXCEPT !.originalImage = Null,
              !.originalImageUrl = Null,
              !.enhancedImageUrl = Null,
              !.videoUrl = Null,
              !.currentStep = "upload",
              !.progress = 0,
              !.error = Null]

\* The capability predicate of the store
canProceedToStep(s, step) ==
    CASE step = "upload" -> TRUE
      [] step = "enhance" -> Truthy(s.originalImage)
      [] step = "prompt" -> Truthy(s.enhancedImageUrl)
      [] step = "generate" -> Truthy(s.motionPrompt)
      [] step = "complete" -> Truthy(s.videoUrl)
      [] OTHER -> FALSE

\* resetWorkflow without "apiKey: state.apiKey"
resetWorkflowLosesKey(s) == initialState

resetWorkflow(s) == [initialState EXCEPT !.apiKey = s.apiKey]

(***************************************************************************)
(* Upload: file validation                                                 *)
(***************************************************************************)
supportedTypes == {"image/jpeg", "image/png", "image/webp"}
maxSize == 10485760   \* 10 * 1024 * 1024

ValidationOk == [isValid |-> TRUE, error |-> Null]
ValidationError(msg) == [isValid |-> FALSE, error |-> Str(<<msg>>)]

\* validateImageFile with >= in the size test
validateImageFileStrict(file) ==
    IF file.type \notin supportedTypes
    THEN ValidationError("Unsupported file type. Please use JPEG, PNG, or WebP images.")
    ELSE IF file.size >= maxSize
    THEN ValidationError("File is too large. Please use an image under 10MB.")
    ELSE ValidationOk

validateImageFile(file) ==
    IF file.type \notin supportedTypes
    THEN ValidationError("Unsupported file type. Please use JPEG, PNG, or WebP images.")
    ELSE IF file.size > maxSize
    THEN ValidationError("File is too large. Please use an image under 10MB.")
    ELSE ValidationOk

(***************************************************************************)
(* Inputs: files, key strings, notes, provider answers                     *)
(***************************************************************************)
FileTypes == {"image/jpeg", "image/png", "image/webp", "image/gif"}
FileSizes == {maxSize, maxSize + 1, 2 * maxSize}
File(n, type, size) == [kind |-> "file", name |-> n, type |-> type, size |-> size]

AIzaKey == <<"A", "I", "z", "a", "1">>
GeminiInputs ==
    { <<>>, <<" ">>, AIzaKey, <<"s", "k", "1">>,
      <<"A", "I", "z", "a", " ">>, <<" ", "A", "I", "z", "a", "1">>,
      <<"a", "i", "z", "a", "1">> }
R8Token == <<"r", "8", "_", "1">>
ReplicateInputs == {<<>>, R8Token, <<"r", "8", "_", "2">>, <<"x">>, <<" ">>}

NoteInputs == {<<>>, <<" ">>, <<"n">>}

\* What the image-processing library does with a validated file
ProcessOutcomes == {"ok", "throw"}
\* Replicate prediction for an image: a URL, an empty output string, or a failure
ReplicateEnhanceOutcomes == {"url", "empty", "throw"}
\* Gemini generateContent answer: the parts of the first candidate, or a failure
GeminiTexts == {<<>>, <<" ">>, <<"t">>}
GeminiResponses == [image : BOOLEAN, text : GeminiTexts]
GeminiErrors == {<<"quota">>, <<"safety">>, <<"key">>, <<"other">>}
\* A provider request that rejects, answers non-OK, or answers OK
Rejected == [fetch |-> "reject"]
NonOk == [fetch |-> "nonOk"]
Ok == [fetch |-> "ok"]
\* Gemini answer for the motion prompt: a failure, or the text of the first part
PromptTexts == {<<>>, <<"m">>, <<"\"">>}
PromptOutcomes == {Rejected} \cup {[text |-> x] : x \in PromptTexts}
\* Replicate video prediction
ReplicateVideoErrors ==
    { <<"Replicate", "failed", "(500):", "body">>,
      <<"Replicate", "did", "not", "return", "an", "output", "URL.">>,
      <<"Failed", "to", "fetch">> }
\* VEO generateVideoSimple
VeoTimedOut == <<"Video generation timed out. Please try again.">>
VeoErrors ==
    { VeoTimedOut,
      <<"ApiError:", "body">>,
      <<"No video was generated.">>,
      <<"No downloadable video URI was returned.">>,
      <<"Failed to download video (HTTP 403)">> }

(***************************************************************************)
(* Components                                                              *)
(***************************************************************************)
Display(step) == IF step = "prompt" THEN "generate" ELSE step

\* The mounted component is the one App renders for the store's step
Committed == mounted = Display(store.currentStep)

requiresApiKey == \/ ~Truthy(store.apiKey)
                  \/ Trim(store.apiKey.s) = <<>>

\* The page under the configuration modal can be used only with the modal closed
PageUsable == Committed /\ ~showApiKeyModal

UploadView == [comp |-> "upload", isProcessing |-> FALSE, uploadError |-> Null]

EnhanceView ==
    [ comp               |-> "enhance",
      isEnhancing        |-> FALSE,
      enhanceError       |-> Null,
      userNote           |-> EmptyStr,
      enhanceProgress    |-> 0,
      enhancementStarted |-> FALSE,
      autoAdvanceTimer   |-> FALSE,    \* a timeout is pending under the ref
      hasEnhanced        |-> FALSE ]

GenerateView ==
    [ comp              |-> "generate",
      isGenerating      |-> FALSE,
      generateError     |-> Null,
      progress          |-> 0,
      statusMessage     |-> "Initializing...",
      timerRef          |-> FALSE,     \* an interval is pending under the ref
      generationStarted |-> FALSE ]

CompleteView == [comp |-> "complete"]

NoTimers == [toGenerate |-> 0, toComplete |-> 0, noteDelay |-> {}]

\* Unmounting: the closures of the instance live on, its refs and state do not
Orphaned(ts) == {[t EXCEPT !.live = FALSE] : t \in ts}

(***************************************************************************)
(* Enhance controller                                                      *)
(***************************************************************************)
\* startEnhancement that skips the Replicate branch
startEnhancementGeminiOnly(img, token, live) ==
    IF ~Truthy(img) THEN {}
    ELSE {[ kind |-> "enhance", live |-> live, img |-> img,
            pc |-> "gemini", replicateThrew |-> FALSE ]}

\* startEnhancement up to its first await; token = localStorage REPLICATE_API_TOKEN
startEnhancement(img, token, live) ==
    IF ~Truthy(img) THEN {}
    ELSE {[ kind |-> "enhance", live |-> live, img |-> img,
            pc |-> IF Truthy(token) THEN "replicate" ELSE "gemini",
            replicateThrew |-> FALSE ]}

EnhanceViewStarted(v) ==
    [v EXCEPT !.isEnhancing = TRUE, !.enhanceError = Null, !.enhanceProgress = 0]

\* originalImageDataUrl.split(',')[1] and the data:([^;]+) match
Base64Of(url) == url.b64
MimeOf(url) == IF url.kind = "data" THEN url.mime ELSE "image/jpeg"

\* GeminiService.enhanceImage without the "if (!caption)" test
GeminiEnhanceResultGeneric(base64Image, mimeType, resp) ==
    LET images0 == IF resp.image
                   THEN <<DataUrl("image/png", Content("gemini", base64Image.n))>>
                   ELSE <<>>
    IN  IF images0 = <<>>
        THEN [images |-> <<DataUrl(mimeType, base64Image)>>,
              caption |-> Str(<<"Image processed successfully">>)]
        ELSE [images |-> images0,
              caption |-> Str(Trim(IF resp.text # <<>>
                                   THEN resp.text \o <<"\n">> ELSE <<>>))]

\* GeminiService.enhanceImage after the response arrived
GeminiEnhanceResult(base64Image, mimeType, resp) ==
    LET caption0 == IF resp.text # <<>> THEN resp.text \o <<"\n">> ELSE <<>>
        images0  == IF resp.image
                    THEN <<DataUrl("image/png", Content("gemini", base64Image.n))>>
                    ELSE <<>>
        images   == IF images0 = <<>>
                    THEN <<DataUrl(mimeType, base64Image)>>
                    ELSE images0
        caption  == IF images0 = <<>> /\ caption0 = <<>>
                    THEN <<"Image processed successfully">>
                    ELSE caption0
    IN  [images |-> images, caption |-> Str(Trim(caption))]

\* GeminiService.enhanceImage error mapping
GeminiEnhanceError(e) ==
    IF Includes(e, "quota")
    THEN Str(<<"API quota exceeded. Please check your Gemini API usage limits.">>)
    ELSE IF Includes(e, "safety")
    THEN Str(<<"Image was rejected for safety reasons. Please try a different image.">>)
    ELSE IF Includes(e, "key")
    THEN Str(<<"Invalid API key. Please check your Gemini API key.">>)
    ELSE Str(<<"Failed to enhance image. Please try again.">>)

GeminiNotInitialized ==
    Str(<<"Gemini service not initialized. Please provide an API key.">>)

\* The try block of startEnhancement after the provider answered with (url, caption)
EnhanceSucceeded(t, url, caption) ==
    /\ store' = setEnhancedImage(store, url, caption)
    /\ tasks' = tasks \ {t}
    /\ IF t.live
       THEN /\ view' = [view EXCEPT !.enhanceProgress = 100,
                                    !.hasEnhanced = TRUE,
                                    !.autoAdvanceTimer = TRUE]
            /\ timers' = timers
       ELSE \* the ref of an unmounted instance: nothing will clear this timeout
            /\ view' = view
            /\ timers' = [timers EXCEPT !.toGenerate = @ + 1]

\* The catch block of startEnhancement
EnhanceFailed(t, msg) ==
    /\ tasks' = tasks \ {t}
    /\ view' = IF t.live
               THEN [view EXCEPT !.enhanceProgress = 0,
                                 !.enhanceError = msg,
                                 !.isEnhancing = FALSE]
               ELSE view
    /\ UNCHANGED <<store, timers>>

\* if (enhancedImageUrl) ... else throw new Error('No enhanced image was generated')
EnhanceFinish(t, url, caption) ==
    IF Truthy(url)
    THEN EnhanceSucceeded(t, url, caption)
    ELSE EnhanceFailed(t, Str(<<"No enhanced image was generated">>))

\* catch (replicateError) that gives up instead of calling Gemini
ReplicateEnhanceCaughtGivesUp(t) ==
    EnhanceFailed(t, Str(<<"Replicate API error: 500">>))

\* catch (replicateError): fall back to geminiService.enhanceImage
ReplicateEnhanceCaught(t) ==
    /\ tasks' = (tasks \ {t}) \cup
                  {[t EXCEPT !.pc = "gemini", !.replicateThrew = TRUE]}
    /\ UNCHANGED <<store, view, timers>>

\* replicateService.enhanceImage settles
ReplicateEnhanceDone(t, outcome) ==
    /\ Committed
    /\ t \in tasks /\ t.kind = "enhance" /\ t.pc = "replicate"
    /\ CASE outcome = "url" ->
              EnhanceFinish(t, HttpUrl("replicate", Content("replicate", t.img.b64.n)),
                            Str(<<"Enhanced with AI">>))
         [] outcome = "empty" ->
              EnhanceFinish(t, EmptyStr, Str(<<"Enhanced with AI">>))
         [] OTHER -> ReplicateEnhanceCaught(t)
    /\ UNCHANGED <<ls, geminiAi, isInitialized, showApiKeyModal, mounted,
                   uploads, retries, validationError>>

\* geminiService.enhanceImage settles with a response
GeminiEnhanceResponds(t, resp) ==
    /\ Committed
    /\ t \in tasks /\ t.kind = "enhance" /\ t.pc = "gemini"
    /\ geminiAi # Null
    /\ LET r == GeminiEnhanceResult(Base64Of(t.img), MimeOf(t.img), resp)
       IN  EnhanceFinish(t, r.images[1], r.caption)
    /\ UNCHANGED <<ls, geminiAi, isInitialized, showApiKeyModal, mounted,
                   uploads, retries, validationError>>

\* geminiService.enhanceImage throws: client not initialised, or a provider error
GeminiEnhanceThrows(t, e) ==
    /\ Committed
    /\ t \in tasks /\ t.kind = "enhance" /\ t.pc = "gemini"
    /\ EnhanceFailed(t, IF geminiAi = Null THEN GeminiNotInitialized
                        ELSE GeminiEnhanceError(e))
    /\ UNCHANGED <<ls, geminiAi, isInitialized, showApiKeyModal, mounted,
                   uploads, retries, validationError>>

\* A startEnhancement call of the mounted card is between its start and its
\* try or catch continuation
EnhanceInFlight(ts) == \E t \in ts : t.kind = "enhance" /\ t.live

\* the interval callback without its limit
progressTickNoCap(prev) == prev + 10

\* setEnhanceProgress(prev => Math.min(prev + 10, 90))
progressTick(prev) == MathMin(prev + 10, 90)

\* The 400 ms progressInterval of a running startEnhancement fires; the
\* interval lives from the call's start to its try or catch continuation
EnhanceProgressTick(t) ==
    /\ Committed
    /\ t \in tasks /\ t.kind = "enhance" /\ t.live
    /\ view' = [view EXCEPT !.enhanceProgress = progressTick(@)]
    /\ UNCHANGED <<store, ls, geminiAi, isInitialized, showApiKeyModal, mounted,
                   tasks, timers, uploads, retries, validationError>>

\* "Try again" of the Enhance card
EnhanceRetry ==
    /\ PageUsable
    /\ mounted = "enhance"
    /\ view.enhanceError # Null
    /\ retries < MaxRetries
    /\ retries' = retries + 1
    /\ LET spawn == startEnhancement(store.originalImageDataUrl,
                                     ls.REPLICATE_API_TOKEN, TRUE)
       IN  /\ tasks' = tasks \cup spawn
           /\ view' = IF spawn = {} THEN view ELSE EnhanceViewStarted(view)
    /\ UNCHANGED <<store, ls, geminiAi, isInitialized, showApiKeyModal, mounted,
                   timers, uploads, validationError>>

\* textarea onChange of the Enhance card
EnhanceNoteChange(note) ==
    /\ PageUsable
    /\ mounted = "enhance"
    /\ view.userNote # Str(note)
    /\ store' = setUserNote(store, Str(note))
    /\ view' = [view EXCEPT !.userNote = Str(note),
                            !.autoAdvanceTimer = IF view.hasEnhanced THEN TRUE ELSE @]
    /\ UNCHANGED <<ls, geminiAi, isInitialized, showApiKeyModal, mounted, tasks,
                   timers, uploads, retries, validationError>>

\* getNextStep: the step after currentStep in stepOrder, null after the last
stepOrder == <<"upload", "enhance", "prompt", "generate", "complete">>

getNextStep(currentStep) ==
    IF \A i \in 1 .. Len(stepOrder) : stepOrder[i] # currentStep THEN Null
    ELSE LET currentIndex == CHOOSE i \in 1 .. Len(stepOrder) : stepOrder[i] = currentStep
         IN  IF currentIndex = Len(stepOrder) THEN Null
             ELSE stepOrder[currentIndex + 1]

\* An auto-advance that follows stepOrder from the Enhance card's own step
AutoAdvanceFiresNextStep(src) ==
    /\ Committed
    /\ IF src = "ref"
       THEN /\ mounted = "enhance"
            /\ view.autoAdvanceTimer
            /\ view' = [view EXCEPT !.autoAdvanceTimer = FALSE]
            /\ timers' = timers
       ELSE /\ timers.toGenerate > 0
            /\ timers' = [timers EXCEPT !.toGenerate = @ - 1]
            /\ view' = view
    /\ store' = setCurrentStep(store, getNextStep("enhance"))
    /\ UNCHANGED <<ls, geminiAi, isInitialized, showApiKeyModal, mounted, tasks,
                   uploads, retries, validationError>>

\* A setTimeout(() => setCurrentStep('generate')) fires: the one kept in the
\* mounted instance's autoAdvanceTimer ref, or one left by an unmounted instance
AutoAdvanceFires(src) ==
    /\ Committed
    /\ IF src = "ref"
       THEN /\ mounted = "enhance"
            /\ view.autoAdvanceTimer
            /\ view' = [view EXCEPT !.autoAdvanceTimer = FALSE]
            /\ timers' = timers
       ELSE /\ timers.toGenerate > 0
            /\ timers' = [timers EXCEPT !.toGenerate = @ - 1]
            /\ view' = view
    /\ store' = setCurrentStep(store, "generate")
    /\ UNCHANGED <<ls, geminiAi, isInitialized, showApiKeyModal, mounted, tasks,
                   uploads, retries, validationError>>

(***************************************************************************)
(* Upload controller                                                       *)
(***************************************************************************)
\* handleFile up to the await of processImageForGemini
handleFile(file) ==
    /\ PageUsable
    /\ mounted = "upload"
    /\ ~view.isProcessing
    /\ uploads < MaxUploads
    /\ uploads' = uploads + 1
    /\ LET validation == validateImageFile(file)
       IN  IF ~validation.isValid
           THEN /\ view' = [view EXCEPT !.uploadError = validation.error,
                                        !.isProcessing = FALSE]
                /\ tasks' = tasks
           ELSE /\ view' = [view EXCEPT !.uploadError = Null,
                                        !.isProcessing = TRUE]
                /\ tasks' = tasks \cup
                     {[kind |-> "upload", live |-> TRUE, file |-> file]}
    /\ UNCHANGED <<store, ls, geminiAi, isInitialized, showApiKeyModal, mounted,
                   timers, retries, validationError>>

\* processImageForGemini settles; the rest of handleFile
UploadProcessed(t, outcome) ==
    /\ Committed
    /\ t \in tasks /\ t.kind = "upload"
    /\ tasks' = tasks \ {t}
    /\ IF outcome = "ok"
       THEN /\ store' = setOriginalImage(store, t.file,
                            DataUrl("image/jpeg", Content("upload", t.file.name)))
            /\ view' = IF t.live THEN [view EXCEPT !.isProcessing = FALSE] ELSE view
       ELSE /\ store' = store
            /\ view' = IF t.live
                       THEN [view EXCEPT
                               !.uploadError =
                                  Str(<<"Failed to process image. Please try a different image.">>),
                               !.isProcessing = FALSE]
                       ELSE view
    /\ UNCHANGED <<ls, geminiAi, isInitialized, showApiKeyModal, mounted, timers,
                   uploads, retries, validationError>>

(***************************************************************************)
(* Generate controller                                                     *)
(***************************************************************************)
\* !prompt || prompt.trim().length === 0
IsBlank(p) == ~Truthy(p) \/ Trim(p.s) = <<>>

\* The arguments startGeneration passes to generateVideoWithReplicate after
\* prompt and image
ReplicateArgs == [duration |-> 5, resolution |-> "480p", aspectRatio |-> "16:9"]

\* One run of startGeneration at an await. hadToken is history, not program
\* state: whether REPLICATE_API_TOKEN existed when the run started. stray says
\* that the run began after its card was unmounted, so that the interval its
\* startGentleProgress created is past every cleanup and lasts until the run's
\* own stopGentleProgress.
GenTask(c, prompt, live, pc, hadToken) ==
    [kind |-> "generate", live |-> live, img |-> c.img, note |-> c.note,
     stray |-> c.stray,
     prompt |-> prompt, pc |-> pc, hadToken |-> hadToken,
     args |-> IF pc \in {"replicate", "fallback"} THEN ReplicateArgs ELSE Null,
     message |-> Null]      \* the message of the error the outer catch holds

\* The video phase that does not look for a Replicate token first
VideoPhaseVeoFirst(c, prompt, live, hadToken) ==
    IF ~Truthy(ls.VEO_API_KEY) /\ ~Truthy(ls.GEMINI_API_KEY)
    THEN [spawn |-> {GenTask(c, prompt, live, "replicate", hadToken)}, error |-> Null]
    ELSE [spawn |-> {GenTask(c, prompt, live, "veo", hadToken)}, error |-> Null]

\* The video phase of startGeneration up to its await, or the error it throws
VideoPhase(c, prompt, live, hadToken) ==
    IF Truthy(ls.REPLICATE_API_TOKEN)
    THEN [spawn |-> {GenTask(c, prompt, live, "replicate", hadToken)}, error |-> Null]
    ELSE IF ~Truthy(ls.VEO_API_KEY) /\ ~Truthy(ls.GEMINI_API_KEY)
    THEN [spawn |-> {},
          error |-> Str(<<"API key not found. Please set your API key.">>)]
    ELSE [spawn |-> {GenTask(c, prompt, live, "veo", hadToken)}, error |-> Null]

\* startGeneration that asks for a motion prompt whatever it was given
startGenerationAlwaysPrompt(c, live) ==
    LET k == [img |-> c.img, prompt |-> c.prompt, note |-> c.note,
              stray |-> ~live]
    IN  IF ~Truthy(c.img)
        THEN [spawn |-> {},
              error |-> Str(<<"Missing required image for video generation">>)]
        ELSE [spawn |-> {GenTask(k, c.prompt, live, "prompt",
                                 Truthy(ls.REPLICATE_API_TOKEN))},
              error |-> Null]

\* startGeneration up to its first await; c holds the store values of the render
\* whose closure runs
startGeneration(c, live) ==
    LET k == [img |-> c.img, prompt |-> c.prompt, note |-> c.note,
              stray |-> ~live]
    IN  IF ~Truthy(c.img)
        THEN [spawn |-> {},
              error |-> Str(<<"Missing required image for video generation">>)]
        ELSE IF IsBlank(c.prompt)
        THEN [spawn |-> {GenTask(k, c.prompt, live, "prompt",
                                 Truthy(ls.REPLICATE_API_TOKEN))},
              error |-> Null]
        ELSE VideoPhase(k, c.prompt, live, Truthy(ls.REPLICATE_API_TOKEN))

\* The local state of the Generate card after startGeneration ran to its await
GenerateViewStarted(v, c, r) ==
    IF ~Truthy(c.img)
    THEN [v EXCEPT !.generateError = r.error]
    ELSE IF r.error # Null
    THEN [v EXCEPT !.isGenerating = FALSE, !.generateError = r.error,
                   !.progress = 10, !.timerRef = FALSE,
                   !.statusMessage = "Analyzing image for motion..."]
    ELSE [v EXCEPT !.isGenerating = TRUE, !.generateError = Null,
                   !.progress = 10, !.timerRef = TRUE,
                   !.statusMessage =
                       IF \E t \in r.spawn : t.pc = "prompt"
                       THEN "Analyzing image for motion..."
                       ELSE "Generating video..."]

Closure(s) == [img |-> s.enhancedImageUrl, prompt |-> s.motionPrompt,
               note |-> s.userNote]

\* The success path without stopGentleProgress
GenerateSucceededKeepsTimer(t, url) ==
    /\ store' = setVideoUrl(store, url)
    /\ tasks' = tasks \ {t}
    /\ timers' = [timers EXCEPT !.toComplete = @ + 1]
    /\ view' = IF t.live
               THEN [view EXCEPT !.progress = 100,
                                 !.statusMessage = "Your memory is ready!"]
               ELSE view

\* A provider returned a video URL: the success path of startGeneration
GenerateSucceeded(t, url) ==
    /\ store' = setVideoUrl(store, url)
    /\ tasks' = tasks \ {t}
    /\ timers' = [timers EXCEPT !.toComplete = @ + 1]
    /\ view' = IF t.live
               THEN [view EXCEPT !.timerRef = FALSE, !.progress = 100,
                                 !.statusMessage = "Your memory is ready!"]
               ELSE view

\* An error that stops the attempt without setGenerateError
GenerateFailedSilent(t, msg) ==
    /\ tasks' = tasks \ {t}
    /\ view' = IF t.live
               THEN [view EXCEPT !.timerRef = FALSE, !.isGenerating = FALSE]
               ELSE view
    /\ UNCHANGED <<store, timers>>

\* An error is surfaced by startGeneration
GenerateFailed(t, msg) ==
    /\ tasks' = tasks \ {t}
    /\ view' = IF t.live
               THEN [view EXCEPT !.timerRef = FALSE, !.generateError = msg,
                                 !.isGenerating = FALSE]
               ELSE view
    /\ UNCHANGED <<store, timers>>

\* The outer catch that surfaces every error at once
GenerateCaughtNoFallback(t, e) == GenerateFailed(t, Str(e))

\* The outer catch of startGeneration, for an error thrown after an await
GenerateCaught(t, e) ==
    IF Truthy(ls.REPLICATE_API_TOKEN) /\ ~Includes(e, "Replicate")
    THEN /\ tasks' = (tasks \ {t}) \cup
                      {[t EXCEPT !.pc = "fallback", !.args = ReplicateArgs,
                                 !.message = Str(e)]}
         /\ UNCHANGED <<store, view, timers>>
    ELSE GenerateFailed(t, Str(e))

ContentOf(url) == IF url.kind = "data" THEN url.b64 ELSE url.of

IsQuote(c) == c \in {"\"", "'"}

\* text.replace(/^["']|["']$/g, '')
StripQuotes(s) ==
    LET a == IF s # <<>> /\ IsQuote(Head(s)) THEN Tail(s) ELSE s
    IN  IF a # <<>> /\ IsQuote(a[Len(a)]) THEN SubSeq(a, 1, Len(a) - 1) ELSE a

\* text.replace(/\n+/g, ' ')
RECURSIVE JoinLines(_)
JoinLines(s) ==
    IF s = <<>> THEN <<>>
    ELSE IF Head(s) # "\n" THEN <<Head(s)>> \o JoinLines(Tail(s))
    ELSE IF Tail(s) # <<>> /\ Head(Tail(s)) = "\n" THEN JoinLines(Tail(s))
    ELSE <<" ">> \o JoinLines(Tail(s))

\* GeminiService.generateVideoPromptFromImage: the text it returns, or Null
\* when it throws (not initialised, request failed, empty text)
generateVideoPromptFromImage(outcome) ==
    IF geminiAi = Null \/ outcome = Rejected THEN Null
    ELSE IF Trim(outcome.text) = <<>> THEN Null
    ELSE Str(Trim(JoinLines(StripQuotes(Trim(outcome.text)))))

\* The generic sentence left out
FallbackPromptMissing == EmptyStr

FallbackPrompt == Str(<<"A gentle, cinematic motion around this cherished memory.">>)

\* geminiService.generateVideoPromptFromImage settles; then the video phase starts
PromptDone(t, outcome) ==
    /\ Committed
    /\ t \in tasks /\ t.kind = "generate" /\ t.pc = "prompt"
    /\ LET text == generateVideoPromptFromImage(outcome)
           prompt == IF text # Null THEN text ELSE FallbackPrompt
           r == VideoPhase([img |-> t.img, note |-> t.note, stray |-> t.stray],
                           prompt, t.live,
                           t.hadToken)
       IN  IF r.error # Null
           THEN GenerateFailed(t, r.error)
           ELSE /\ tasks' = (tasks \ {t}) \cup r.spawn
                /\ view' = IF t.live
                           THEN [view EXCEPT !.statusMessage = "Generating video..."]
                           ELSE view
                /\ UNCHANGED <<store, timers>>
    /\ UNCHANGED <<ls, geminiAi, isInitialized, showApiKeyModal, mounted,
                   uploads, retries, validationError>>

\* veoService.generateVideoWithReplicate settles (direct call)
ReplicateVideoDone(t, outcome) ==
    /\ Committed
    /\ t \in tasks /\ t.kind = "generate" /\ t.pc = "replicate"
    /\ IF outcome = <<"ok">>
       THEN GenerateSucceeded(t, HttpUrl("replicate",
                                         Content("seedance", ContentOf(t.img).n)))
       ELSE GenerateCaught(t, outcome)
    /\ UNCHANGED <<ls, geminiAi, isInitialized, showApiKeyModal, mounted,
                   uploads, retries, validationError>>

\* veoService.generateVideoSimple settles
VeoDone(t, outcome) ==
    /\ Committed
    /\ t \in tasks /\ t.kind = "generate" /\ t.pc = "veo"
    /\ IF outcome = <<"ok">>
       THEN GenerateSucceeded(t, BlobUrl(Content("veo", ContentOf(t.img).n)))
       ELSE GenerateCaught(t, outcome)
    /\ UNCHANGED <<ls, geminiAi, isInitialized, showApiKeyModal, mounted,
                   uploads, retries, validationError>>

\* veoService.generateVideoWithReplicate settles (fallback call in the catch)
FallbackDone(t, outcome) ==
    /\ Committed
    /\ t \in tasks /\ t.kind = "generate" /\ t.pc = "fallback"
    /\ IF outcome = <<"ok">>
       THEN GenerateSucceeded(t, HttpUrl("replicate",
                                         Content("seedance", ContentOf(t.img).n)))
       ELSE GenerateFailed(t, Str(outcome))
    /\ UNCHANGED <<ls, geminiAi, isInitialized, showApiKeyModal, mounted,
                   uploads, retries, validationError>>

\* The 500 ms "Processing your note..." timeout fires and calls startGeneration
NoteDelayFires(tm) ==
    /\ Committed
    /\ tm \in timers.noteDelay
    /\ timers' = [timers EXCEPT !.noteDelay = @ \ {tm}]
    /\ LET r == startGeneration(tm.c, tm.live)
       IN  /\ tasks' = tasks \cup r.spawn
           /\ view' = IF tm.live THEN GenerateViewStarted(view, tm.c, r) ELSE view
    /\ UNCHANGED <<store, ls, geminiAi, isInitialized, showApiKeyModal, mounted,
                   uploads, retries, validationError>>

\* "Try again" of the Generate card
GenerateRetry ==
    /\ PageUsable
    /\ mounted = "generate"
    /\ view.generateError # Null
    /\ retries < MaxRetries
    /\ retries' = retries + 1
    /\ LET c == Closure(store)
           r == startGeneration(c, TRUE)
       IN  /\ tasks' = tasks \cup r.spawn
           /\ view' = GenerateViewStarted(view, c, r)
    /\ UNCHANGED <<store, ls, geminiAi, isInitialized, showApiKeyModal, mounted,
                   timers, uploads, validationError>>

\* A setTimeout(() => setCurrentStep('complete'), 1200) fires
CompleteTimerFires ==
    /\ Committed
    /\ timers.toComplete > 0
    /\ timers' = [timers EXCEPT !.toComplete = @ - 1]
    /\ store' = setCurrentStep(store, "complete")
    /\ UNCHANGED <<ls, geminiAi, isInitialized, showApiKeyModal, mounted, view,
                   tasks, uploads, retries, validationError>>

(***************************************************************************)
(* Complete card                                                           *)
(***************************************************************************)
\* "Create Another Memory"
handleStartOver ==
    /\ PageUsable
    /\ mounted = "complete"
    /\ store' = resetWorkflow(store)
    /\ UNCHANGED <<ls, geminiAi, isInitialized, showApiKeyModal, mounted, view,
                   tasks, timers, uploads, retries, validationError>>

(***************************************************************************)
(* Configuration form (ApiKeyModal) and App                                *)
(***************************************************************************)
\* Header button "Setup" / "Update Key"
OpenModal ==
    /\ PageUsable
    /\ showApiKeyModal' = TRUE
    /\ UNCHANGED <<store, ls, geminiAi, isInitialized, mounted, view, tasks,
                   timers, uploads, retries, validationError>>

\* Cancel / backdrop click: onClose = () => !requiresApiKey && setShowApiKeyModal(false)
CloseModal ==
    /\ Committed
    /\ showApiKeyModal
    /\ ~requiresApiKey
    /\ showApiKeyModal' = FALSE
    /\ UNCHANGED <<store, ls, geminiAi, isInitialized, mounted, view, tasks,
                   timers, uploads, retries, validationError>>

\* onChange of either key input
onChangeKeyInput ==
    /\ Committed
    /\ showApiKeyModal
    /\ validationError # Null
    /\ validationError' = Null
    /\ UNCHANGED <<store, ls, geminiAi, isInitialized, showApiKeyModal, mounted,
                   view, tasks, timers, uploads, retries>>

\* A submit that saves whatever key was typed
handleSubmitNoPrefix(geminiKey, replicateToken) ==
    /\ Committed
    /\ showApiKeyModal
    /\ store' = setApiKey(store, Str(geminiKey))
    /\ IF ~isInitialized /\ Truthy(store'.apiKey)
       THEN geminiAi' = store'.apiKey /\ isInitialized' = TRUE
       ELSE UNCHANGED <<geminiAi, isInitialized>>
    /\ ls' = [ls EXCEPT !.GEMINI_API_KEY = Str(geminiKey)]
    /\ validationError' = validationError
    /\ showApiKeyModal' = requiresApiKey
    /\ UNCHANGED <<mounted, view, tasks, timers, uploads, retries>>

\* Form submit with the two input values; the App effects that follow the
\* store update (geminiService.init once, modal forced open) are part of it
handleSubmit(geminiKey, replicateToken) ==
    /\ Committed
    /\ showApiKeyModal
    /\ IF Trim(geminiKey) = <<>>
       THEN /\ validationError' = Str(<<"Please enter your Gemini API key">>)
            /\ UNCHANGED <<store, ls, geminiAi, isInitialized, showApiKeyModal>>
       ELSE IF ~StartsWith(geminiKey, <<"A", "I", "z", "a">>)
       THEN /\ validationError' =
                  Str(<<"Invalid Gemini API key format. Keys should start with \"AIza\"">>)
            /\ UNCHANGED <<store, ls, geminiAi, isInitialized, showApiKeyModal>>
       ELSE /\ store' = setApiKey(store, Str(geminiKey))
            /\ IF ~isInitialized /\ Truthy(store'.apiKey)
               THEN geminiAi' = store'.apiKey /\ isInitialized' = TRUE
               ELSE UNCHANGED <<geminiAi, isInitialized>>
            /\ IF Trim(replicateToken) # <<>> /\ ~StartsWith(replicateToken, <<"r", "8", "_">>)
               THEN /\ ls' = [ls EXCEPT !.GEMINI_API_KEY = Str(geminiKey)]
                    /\ validationError' =
                          Str(<<"Invalid Replicate token format. Tokens should start with \"r8_\"">>)
                    /\ showApiKeyModal' = showApiKeyModal
               ELSE /\ ls' = [ls EXCEPT
                                !.GEMINI_API_KEY = Str(geminiKey),
                                !.REPLICATE_API_TOKEN =
                                    IF Trim(replicateToken) # <<>>
                                    THEN Str(replicateToken) ELSE @]
                    /\ validationError' = validationError
                    \* onClose of the render the handler was created in
                    /\ showApiKeyModal' = requiresApiKey
    /\ UNCHANGED <<mounted, view, tasks, timers, uploads, retries>>

\* "Clear All"
handleClearKeys ==
    /\ Committed
    /\ showApiKeyModal
    /\ store' = clearApiKey(store)
    /\ ls' = [ls EXCEPT !.GEMINI_API_KEY = Null, !.REPLICATE_API_TOKEN = Null]
    /\ validationError' = Null
    /\ UNCHANGED <<geminiAi, isInitialized, showApiKeyModal, mounted, view, tasks,
                   timers, uploads, retries>>

(***************************************************************************)
(* Re-render after a step change: unmount, then mount with the entry effect *)
(***************************************************************************)
\* the test of the entry effects without the started flag
EntryGuardNoFlag(captured, started) == captured

\* The test of both entry effects: the store values of the closure
\* (originalImageDataUrl && !enhancedImageUrl, or !videoUrl && enhancedImageUrl)
\* and the one-shot ref
EntryGuard(captured, started) == captured /\ ~started

\* The framework runs the entry effect of the mounted card once more: the
\* cleanup it returned, then its body, in the closure of the mount render.
\* That closure's store values are those the first run tested, so they passed
\* exactly if the first run set the flag.
EntryEffectAgain ==
    /\ Committed
    /\ mounted \in {"enhance", "generate"}
    /\ IF mounted = "enhance"
       THEN LET v == [view EXCEPT !.autoAdvanceTimer = FALSE]
                go == EntryGuard(view.enhancementStarted, view.enhancementStarted)
                spawn == IF go
                         THEN startEnhancement(store.originalImageDataUrl,
                                               ls.REPLICATE_API_TOKEN, TRUE)
                         ELSE {}
            IN  /\ store' = IF go THEN setUserNote(store, EmptyStr) ELSE store
                /\ view' = IF spawn = {} THEN v ELSE EnhanceViewStarted(v)
                /\ tasks' = tasks \cup spawn
                /\ timers' = timers
       ELSE LET v == [view EXCEPT !.timerRef = FALSE]
                c == Closure(store)
                go == EntryGuard(view.generationStarted, view.generationStarted)
                r == startGeneration(c, TRUE)
            IN  /\ store' = store
                /\ IF ~go
                   THEN view' = v /\ tasks' = tasks /\ timers' = timers
                   ELSE IF Truthy(c.note) /\ Trim(c.note.s) # <<>>
                   THEN /\ view' = [v EXCEPT !.statusMessage = "Processing your note..."]
                        /\ timers' = [timers EXCEPT
                                        !.noteDelay = @ \cup {[live |-> TRUE, c |-> c]}]
                        /\ tasks' = tasks
                   ELSE /\ view' = GenerateViewStarted(v, c, r)
                        /\ tasks' = tasks \cup r.spawn
                        /\ timers' = timers
    /\ UNCHANGED <<ls, geminiAi, isInitialized, showApiKeyModal, mounted, uploads,
                   retries, validationError>>

MountEnhance(orphans, tm) ==
    IF Truthy(store.originalImageDataUrl) /\ ~Truthy(store.enhancedImageUrl)
    THEN LET spawn == startEnhancement(store.originalImageDataUrl,
                                       ls.REPLICATE_API_TOKEN, TRUE)
             v == [EnhanceView EXCEPT !.enhancementStarted = TRUE]
         IN  /\ store' = setUserNote(store, EmptyStr)
             /\ view' = IF spawn = {} THEN v ELSE EnhanceViewStarted(v)
             /\ tasks' = orphans \cup spawn
             /\ timers' = tm
    ELSE /\ view' = EnhanceView
         /\ tasks' = orphans
         /\ timers' = tm
         /\ store' = store

MountGenerate(orphans, tm) ==
    LET c == Closure(store)
        v == [GenerateView EXCEPT !.generationStarted = TRUE]
    IN  IF ~Truthy(store.videoUrl) /\ Truthy(store.enhancedImageUrl)
        THEN IF Truthy(c.note) /\ Trim(c.note.s) # <<>>
             THEN /\ view' = [v EXCEPT !.statusMessage = "Processing your note..."]
                  /\ timers' = [tm EXCEPT !.noteDelay = @ \cup {[live |-> TRUE, c |-> c]}]
                  /\ tasks' = orphans
                  /\ store' = store
             ELSE LET r == startGeneration(c, TRUE)
                  IN  /\ view' = GenerateViewStarted(v, c, r)
                      /\ tasks' = orphans \cup r.spawn
                      /\ timers' = tm
                      /\ store' = store
        ELSE /\ view' = GenerateView
             /\ tasks' = orphans
             /\ timers' = tm
             /\ store' = store

Commit ==
    /\ ~Committed
    /\ mounted' = Display(store.currentStep)
    /\ LET orphans == Orphaned(tasks)
           tm == [timers EXCEPT !.noteDelay = Orphaned(@)]
       IN  CASE mounted' = "upload" ->
                  /\ view' = UploadView
                  /\ tasks' = orphans /\ timers' = tm /\ store' = store
             [] mounted' = "enhance" -> MountEnhance(orphans, tm)
             [] mounted' = "generate" -> MountGenerate(orphans, tm)
             [] OTHER ->
                  /\ view' = CompleteView
                  /\ tasks' = orphans /\ timers' = tm /\ store' = store
    /\ UNCHANGED <<ls, geminiAi, isInitialized, showApiKeyModal, uploads, retries,
                   validationError>>

(***************************************************************************)
(* Specification                                                           *)
(***************************************************************************)
Init ==
    /\ store = initialState
    /\ ls = [GEMINI_API_KEY |-> Null, REPLICATE_API_TOKEN |-> Null,
             VEO_API_KEY |-> Null]
    /\ geminiAi = Null
    /\ isInitialized = FALSE
    /\ showApiKeyModal = TRUE      \* requiresApiKey on first render
    /\ mounted = "upload"
    /\ view = UploadView
    /\ tasks = {}
    /\ timers = NoTimers
    /\ uploads = 0
    /\ retries = 0
    /\ validationError = Null

VideoOutcomes(errors) == {<<"ok">>} \cup errors

Next ==
    \/ Commit
    \/ OpenModal
    \/ CloseModal
    \/ \E g \in {AIzaKey}, r \in {<<>>, R8Token} : handleSubmit(g, r)
    \/ handleClearKeys
    \/ \E ty \in FileTypes, sz \in FileSizes : handleFile(File(uploads + 1, ty, sz))
    \/ \E t \in tasks, o \in ProcessOutcomes : UploadProcessed(t, o)
    \/ \E t \in tasks, o \in ReplicateEnhanceOutcomes : ReplicateEnhanceDone(t, o)
    \/ \E t \in tasks, resp \in GeminiResponses : GeminiEnhanceResponds(t, resp)
    \/ \E t \in tasks, e \in GeminiErrors : GeminiEnhanceThrows(t, e)
    \/ EnhanceRetry
    \/ \E n \in NoteInputs : EnhanceNoteChange(n)
    \/ \E src \in {"ref", "orphan"} : AutoAdvanceFires(src)
    \/ \E t \in tasks, o \in PromptOutcomes : PromptDone(t, o)
    \/ \E t \in tasks, o \in VideoOutcomes(ReplicateVideoErrors) : ReplicateVideoDone(t, o)
    \/ \E t \in tasks, o \in VideoOutcomes(VeoErrors) : VeoDone(t, o)
    \/ \E t \in tasks, o \in VideoOutcomes(ReplicateVideoErrors) : FallbackDone(t, o)
    \/ \E tm \in timers.noteDelay : NoteDelayFires(tm)
    \/ GenerateRetry
    \/ CompleteTimerFires
    \/ handleStartOver

Spec == Init /\ [][Next]_vars

(***************************************************************************)
(* The configuration form with every input, valid or not                   *)
(***************************************************************************)
NextConfig ==
    \/ OpenModal
    \/ CloseModal
    \/ \E g \in GeminiInputs, r \in ReplicateInputs : handleSubmit(g, r)
    \/ onChangeKeyInput
    \/ handleClearKeys

SpecConfig == Init /\ [][NextConfig]_vars

(***************************************************************************)
(* The application with a user who owns two Gemini keys and may replace    *)
(* the stored one through the form at any time                             *)
(***************************************************************************)
AIzaKey2 == <<"A", "I", "z", "a", "2">>

NextRekey ==
    \/ Next
    \/ handleSubmit(AIzaKey2, <<>>)

SpecRekey == Init /\ [][NextRekey]_vars

(***************************************************************************)
(* The store on its own: every mutator that touches progress or the flags  *)
(* around it, called in any order with any argument                        *)
(***************************************************************************)
\* around both limits, in between, and far outside
ProgressInputs ==
    ((0 - 2) .. 2) \cup (49 .. 51) \cup (98 .. 102) \cup {0 - 2147483647, 2147483647}
Steps == {"upload", "enhance", "prompt", "generate", "complete"}

StoreSet(n) ==
    /\ store' = n
    /\ UNCHANGED <<ls, geminiAi, isInitialized, showApiKeyModal, mounted, view,
                   tasks, timers, uploads, retries, validationError>>

StoreSetProgress(p) == StoreSet(setProgress(store, p))
StoreSetProcessing(b) == StoreSet(setProcessing(store, b))
StoreSetError(e) == StoreSet(setError(store, e))
StoreStartProcessing == StoreSet(startProcessing(store))
StoreCompleteProcessing == StoreSet(completeProcessing(store))
StoreSetCurrentStep(step) == StoreSet(setCurrentStep(store, step))
StoreSetVideoUrl == StoreSet(setVideoUrl(store, BlobUrl("veo")))
StoreClearMedia == StoreSet(clearMedia(store))
StoreResetWorkflow == StoreSet(resetWorkflow(store))

NextStore ==
    \/ \E p \in ProgressInputs : StoreSetProgress(p)
    \/ \E b \in BOOLEAN : StoreSetProcessing(b)
    \/ \E e \in {Null, Str(<<"e">>)} : StoreSetError(e)
    \/ StoreStartProcessing
    \/ StoreCompleteProcessing
    \/ \E step \in Steps : StoreSetCurrentStep(step)
    \/ StoreSetVideoUrl
    \/ StoreClearMedia
    \/ StoreResetWorkflow

SpecStore == Init /\ [][NextStore]_vars

(***************************************************************************)
(* The workflow with the simulated progress of the Enhance card            *)
(***************************************************************************)
NextProgress ==
    \/ Next
    \/ \E t \in tasks : EnhanceProgressTick(t)

SpecProgress == Init /\ [][NextProgress]_vars

(***************************************************************************)
(* The workflow under a framework that repeats entry effects               *)
(***************************************************************************)
NextStrict ==
    \/ Next
    \/ EntryEffectAgain

SpecStrict == Init /\ [][NextStrict]_vars

(***************************************************************************)
(* Page reload: the persist middleware of the store                        *)
(***************************************************************************)
\* JSON.stringify followed by JSON.parse: strings and null come back as they
\* were, a File object comes back as an empty object
JsonRoundTrip(v) ==
    IF v.kind = "file" THEN [kind |-> "obj"] ELSE v

\* a partialize that also keeps the video
partializeWithVideo(s) ==
    [apiKey |-> s.apiKey, userNote |-> s.userNote, videoUrl |-> s.videoUrl]

partialize(s) ==
    [apiKey |-> s.apiKey, userNote |-> s.userNote]

\* the value under 'moving-memories-store': written on every set of the store
Persisted(s) ==
    LET p == partialize(s)
    IN  [f \in DOMAIN p |-> JsonRoundTrip(p[f])]

\* persist's default merge of the stored value over the initial state
Rehydrate(p) ==
    [f \in DOMAIN initialState |->
        IF f \in DOMAIN p THEN p[f] ELSE initialState[f]]

\* The browser loads the page again: module and component state start over,
\* localStorage stays, and the two App effects run on the rehydrated store
Reload ==
    /\ store' = Rehydrate(Persisted(store))
    /\ IF Truthy(store'.apiKey)
       THEN geminiAi' = store'.apiKey /\ isInitialized' = TRUE
       ELSE geminiAi' = Null /\ isInitialized' = FALSE
    /\ showApiKeyModal' = requiresApiKey'
    /\ mounted' = "upload"
    /\ view' = UploadView
    /\ tasks' = {}
    /\ timers' = NoTimers
    /\ validationError' = Null
    /\ UNCHANGED <<ls, uploads, retries>>

NextReload ==
    \/ Next
    \/ Reload

SpecReload == Init /\ [][NextReload]_vars

(***************************************************************************)
(* The workflow with both credentials saved and every provider call        *)
(* succeeding                                                              *)
(***************************************************************************)
\* The page after the Gemini key and the Replicate token were saved and the
\* modal closed
InitHappy ==
    /\ store = setApiKey(initialState, Str(AIzaKey))
    /\ ls = [GEMINI_API_KEY |-> Str(AIzaKey), REPLICATE_API_TOKEN |-> Str(R8Token),
             VEO_API_KEY |-> Null]
    /\ geminiAi = Str(AIzaKey)
    /\ isInitialized = TRUE
    /\ showApiKeyModal = FALSE
    /\ mounted = "upload"
    /\ view = UploadView
    /\ tasks = {}
    /\ timers = NoTimers
    /\ uploads = 0
    /\ retries = 0
    /\ validationError = Null

\* The steps the page takes by itself: re-render, provider calls that succeed,
\* timers
HappySystem ==
    \/ Commit
    \/ \E t \in tasks : UploadProcessed(t, "ok")
    \/ \E t \in tasks : ReplicateEnhanceDone(t, "url")
    \/ \E t \in tasks : PromptDone(t, [text |-> <<"m">>])
    \/ \E t \in tasks : ReplicateVideoDone(t, <<"ok">>)
    \/ \E tm \in timers.noteDelay : NoteDelayFires(tm)
    \/ CompleteTimerFires

\* What the user may do meanwhile
HappyUser ==
    \/ OpenModal
    \/ CloseModal
    \/ \E ty \in supportedTypes, sz \in {maxSize} : handleFile(File(uploads + 1, ty, sz))
    \/ \E n \in NoteInputs : EnhanceNoteChange(n)
    \/ handleStartOver

NextHappy == HappySystem \/ HappyUser

\* The event loop runs every pending callback; the user may stop at any time
SpecHappy ==
    /\ InitHappy
    /\ [][NextHappy]_vars
    /\ WF_vars(Commit)
    /\ WF_vars(\E t \in tasks : UploadProcessed(t, "ok"))
    /\ WF_vars(\E t \in tasks : ReplicateEnhanceDone(t, "url"))
    /\ WF_vars(\E t \in tasks : PromptDone(t, [text |-> <<"m">>]))
    /\ WF_vars(\E t \in tasks : ReplicateVideoDone(t, <<"ok">>))
    /\ WF_vars(\E tm \in timers.noteDelay : NoteDelayFires(tm))
    /\ WF_vars(CompleteTimerFires)

(***************************************************************************)
(* The same workflow from the moment after a first run: the video arrived, *)
(* the Complete card was shown and "Start over" was clicked before the     *)
(* 1.2 s completion timeout of that run fired.  uploads counts from here.  *)
(***************************************************************************)
InitStartedOver ==
    /\ store = resetWorkflow(setApiKey(initialState, Str(AIzaKey)))
    /\ ls = [GEMINI_API_KEY |-> Str(AIzaKey), REPLICATE_API_TOKEN |-> Str(R8Token),
             VEO_API_KEY |-> Null]
    /\ geminiAi = Str(AIzaKey)
    /\ isInitialized = TRUE
    /\ showApiKeyModal = FALSE
    /\ mounted = "upload"
    /\ view = UploadView
    /\ tasks = {}
    /\ timers = [NoTimers EXCEPT !.toComplete = 1]
    /\ uploads = 0
    /\ retries = 0
    /\ validationError = Null

SpecStartedOver == InitStartedOver /\ [][NextHappy]_vars

(***************************************************************************)
(* The Generate step entered with any motionPrompt in the store: the       *)
(* enhanced image has just been recorded, after setMotionPrompt was called *)
(* with a blank or a non-blank text                                        *)
(***************************************************************************)
MotionPrompts == {<<>>, <<" ">>, <<"p">>}

InitPrompt ==
    /\ \E p \in MotionPrompts, n \in {<<>>, <<"n">>} :
          store = setEnhancedImage(
                     setUserNote(
                        setMotionPrompt(
                           setOriginalImage(
                              setApiKey(initialState, Str(AIzaKey)),
                              File(1, "image/jpeg", maxSize),
                              DataUrl("image/jpeg", Content("upload", 1))),
                           Str(p)),
                        Str(n)),
                     HttpUrl("replicate", Content("replicate", 1)),
                     Str(<<"Enhanced with AI">>))
    /\ \E r \in {Null, Str(R8Token)} :
          ls = [GEMINI_API_KEY |-> Str(AIzaKey), REPLICATE_API_TOKEN |-> r,
                VEO_API_KEY |-> Null]
    /\ geminiAi = Str(AIzaKey)
    /\ isInitialized = TRUE
    /\ showApiKeyModal = FALSE
    /\ mounted = "enhance"
    /\ view = [EnhanceView EXCEPT !.enhancementStarted = TRUE,
                                  !.isEnhancing = TRUE,
                                  !.enhanceProgress = 100,
                                  !.hasEnhanced = TRUE,
                                  !.autoAdvanceTimer = TRUE,
                                  !.userNote = store.userNote]
    /\ tasks = {}
    /\ timers = NoTimers
    /\ uploads = 1
    /\ retries = 0
    /\ validationError = Null

NextPrompt ==
    \/ Commit
    \/ \E t \in tasks, o \in PromptOutcomes : PromptDone(t, o)
    \/ \E t \in tasks, o \in VideoOutcomes(ReplicateVideoErrors) : ReplicateVideoDone(t, o)
    \/ \E t \in tasks, o \in VideoOutcomes(VeoErrors) : VeoDone(t, o)
    \/ \E tm \in timers.noteDelay : NoteDelayFires(tm)
    \/ GenerateRetry
    \/ CompleteTimerFires
    \/ handleStartOver

SpecPrompt == InitPrompt /\ [][NextPrompt]_vars

(***************************************************************************)
(* VeoService.generateVideo, one call stepped through its awaits           *)
(***************************************************************************)
maxPolls == 30

\* What a fetch of the VEO API can do: reject, answer non-OK, or answer OK
\* with an operation {done, response.generatedVideos[0].video, video.uri}
Operations ==
    {[done |-> FALSE, video |-> FALSE, uri |-> FALSE]} \cup
    [done : {TRUE}, video : BOOLEAN, uri : BOOLEAN]
FetchAnswers == {Rejected, NonOk} \cup Operations
ApiErrorTexts == {"body", "quota", "safety"}

\* The call at its first await (the POST); apiKey is what init() was given.
\* waits and polls are history: the 10 s timeouts and the status polls issued.
VeoCall(apiKey) ==
    [ kind |-> "generateVideo", apiKey |-> apiKey,
      pc |-> IF Truthy(apiKey) THEN "post" ELSE "thrown",
      currentOperation |-> Null, pollCount |-> 0, waits |-> 0, polls |-> 0,
      pollResponse |-> "none",
      result |-> IF Truthy(apiKey) THEN Null
                 ELSE <<"VEO service not initialized. Please provide an API key.">> ]

\* catch (error) of generateVideo
VeoRethrow(e) ==
    IF Includes(e, "quota")
    THEN <<"API quota exceeded. Please check your API usage limits.">>
    ELSE IF Includes(e, "safety")
    THEN <<"Content was rejected for safety reasons. Please try different content.">>
    ELSE e

VeoThrows(t, e) == [t EXCEPT !.pc = "thrown", !.result = VeoRethrow(e)]

\* After the loop: timeout, or the video file reference and its download
VeoAfterLoop(t) ==
    IF ~t.currentOperation.done THEN VeoThrows(t, VeoTimedOut)
    ELSE IF ~t.currentOperation.video THEN VeoThrows(t, <<"No video was generated.">>)
    ELSE IF ~t.currentOperation.uri
    THEN VeoThrows(t, <<"No downloadable video URI was returned.">>)
    ELSE [t EXCEPT !.pc = "download"]

\* The loop test that never gives up
VeoLoopHeadNoLimit(t) ==
    IF ~t.currentOperation.done
    THEN [t EXCEPT !.pc = "wait", !.waits = @ + 1]
    ELSE VeoAfterLoop(t)

\* while (!currentOperation.done && pollCount < maxPolls): enter the body up
\* to its 10 s timeout, or leave the loop
VeoLoopHead(t) ==
    IF ~t.currentOperation.done /\ t.pollCount < maxPolls
    THEN [t EXCEPT !.pc = "wait", !.waits = @ + 1]
    ELSE VeoAfterLoop(t)

VeoStep(t, n) ==
    /\ tasks' = (tasks \ {t}) \cup {n}
    /\ UNCHANGED <<store, ls, geminiAi, isInitialized, showApiKeyModal, mounted,
                   view, timers, uploads, retries, validationError>>

\* The POST predictLongRunning settles
VeoPostResponds(t, a, text) ==
    /\ t \in tasks /\ t.kind = "generateVideo" /\ t.pc = "post"
    /\ VeoStep(t, IF a = Rejected THEN VeoThrows(t, <<"Failed", "to", "fetch">>)
                  ELSE IF a = NonOk THEN VeoThrows(t, <<"ApiError:", text>>)
                  ELSE VeoLoopHead([t EXCEPT !.currentOperation = a]))

\* The 10 s timeout resolves and the status poll is sent
VeoWaitElapses(t) ==
    /\ t \in tasks /\ t.kind = "generateVideo" /\ t.pc = "wait"
    /\ VeoStep(t, [t EXCEPT !.pc = "poll", !.polls = @ + 1])

\* A status poll whose non-OK answer is thrown like the one of the POST
VeoPollRespondsThrowsNonOk(t, a) ==
    /\ t \in tasks /\ t.kind = "generateVideo" /\ t.pc = "poll"
    /\ VeoStep(t, IF a = Rejected THEN VeoThrows(t, <<"Failed", "to", "fetch">>)
                  ELSE IF a = NonOk
                  THEN VeoThrows([t EXCEPT !.pollResponse = "nonOk"],
                                 <<"ApiError:", "body">>)
                  ELSE VeoLoopHead(
                         [t EXCEPT !.currentOperation = a,
                                   !.pollResponse = "ok",
                                   !.pollCount = @ + 1]))

\* The status poll settles; pollResponse is the status of the last answer
VeoPollResponds(t, a) ==
    /\ t \in tasks /\ t.kind = "generateVideo" /\ t.pc = "poll"
    /\ VeoStep(t, IF a = Rejected THEN VeoThrows(t, <<"Failed", "to", "fetch">>)
                  ELSE VeoLoopHead(
                         [t EXCEPT !.currentOperation = IF a = NonOk THEN @ ELSE a,
                                   !.pollResponse = IF a = NonOk THEN "nonOk" ELSE "ok",
                                   !.pollCount = @ + 1]))

\* The download of the video file settles
VeoDownloadResponds(t, a) ==
    /\ t \in tasks /\ t.kind = "generateVideo" /\ t.pc = "download"
    /\ VeoStep(t, IF a = Rejected THEN VeoThrows(t, <<"Failed", "to", "fetch">>)
                  ELSE IF a = NonOk
                  THEN VeoThrows(t, <<"Failed to download video (HTTP 403)">>)
                  ELSE [t EXCEPT !.pc = "returned", !.result = BlobUrl("veo")])

\* The request of the fetch the call is waiting on: where it goes and where
\* in it the API key travels.  All three are built in generateVideo with the
\* key as the "key" query parameter, the POST body holds prompt and image, and
\* the only headers are Content-Type ones.
VeoRequest(t) ==
    [ host   |-> IF t.pc = "download" THEN "host of video.uri"
                 ELSE "generativelanguage.googleapis.com",
      url    |-> t.apiKey,
      header |-> Null,
      body   |-> Null ]

InitVeo ==
    /\ store = initialState
    /\ ls = [GEMINI_API_KEY |-> Null, REPLICATE_API_TOKEN |-> Null,
             VEO_API_KEY |-> Null]
    /\ geminiAi = Null
    /\ isInitialized = FALSE
    /\ showApiKeyModal = TRUE
    /\ mounted = "upload"
    /\ view = UploadView
    /\ tasks \in {{VeoCall(k)} : k \in {Null, Str(AIzaKey)}}
    /\ timers = NoTimers
    /\ uploads = 0
    /\ retries = 0
    /\ validationError = Null

NextVeo ==
    \/ \E t \in tasks, a \in FetchAnswers, text \in ApiErrorTexts :
          VeoPostResponds(t, a, text)
    \/ \E t \in tasks : VeoWaitElapses(t)
    \/ \E t \in tasks, a \in FetchAnswers : VeoPollResponds(t, a)
    \/ \E t \in tasks, a \in {Rejected, NonOk, Ok} : VeoDownloadResponds(t, a)

\* Timers fire and every fetch settles
SpecVeo == InitVeo /\ [][NextVeo]_vars /\ WF_vars(NextVeo)

(***************************************************************************)
(* Properties                                                              *)
(***************************************************************************)
Rank(step) ==
    CASE step = "upload" -> 0
      [] step = "enhance" -> 1
      [] step = "prompt" -> 2
      [] step = "generate" -> 3
      [] OTHER -> 4

\* C1: a step is current only when its predecessor artifact exists: complete
\* needs a video, generate an enhanced image, enhance an original image.
C1_StepHasArtifact ==
    /\ store.currentStep = "complete" => store.videoUrl # Null
    /\ store.currentStep = "generate" => store.enhancedImageUrl # Null
    /\ store.currentStep = "enhance" => store.originalImage # Null

\* C2: currentStep never moves to an earlier step except by the reset of
\* "Create Another Memory", and once reset to upload it leaves upload only by
\* an upload (no timer, no late provider completion moves it).
C2_ForwardOnly ==
    [][ /\ Rank(store'.currentStep) < Rank(store.currentStep) => handleStartOver
        /\ (store.currentStep = "upload" /\ store'.currentStep # "upload")
              => \E t \in tasks : UploadProcessed(t, "ok") ]_vars

\* C3: "Create Another Memory" returns every workflow field to its initial
\* value and leaves the credentials alone: store apiKey and localStorage.
C3_ResetKeepsCredentials ==
    [][ handleStartOver =>
          /\ store'.currentStep = "upload"
          /\ store'.originalImage = Null
          /\ store'.originalImageUrl = Null
          /\ store'.originalImageDataUrl = Null
          /\ store'.enhancedImageUrl = Null
          /\ store'.enhancedImageCaption = Null
          /\ store'.videoUrl = Null
          /\ store'.userNote = EmptyStr
          /\ store'.motionPrompt = EmptyStr
          /\ store'.isProcessing = FALSE
          /\ store'.progress = 0
          /\ store'.error = Null
          /\ store'.processingStartTime = Null
          /\ store'.estimatedTimeRemaining = Null
          /\ store'.apiKey = store.apiKey
          /\ ls' = ls ]_vars

\* The reset has just run on a finished workflow: the Complete card is still
\* mounted, the store is back at upload and the key is still there
C3_Witness ==
    /\ mounted = "complete"
    /\ store.currentStep = "upload"
    /\ store.videoUrl = Null
    /\ store.apiKey # Null
    /\ ls.GEMINI_API_KEY # Null
    /\ uploads > 0

\* C4: a file of a disallowed type or of more than 10 MB is rejected with a
\* validation error and the store is left as it was (step upload, no image);
\* a file of an allowed type of exactly 10 MB passes validation.
C4_InvalidFileRejected ==
    [][ \A ty \in FileTypes, sz \in FileSizes :
          handleFile(File(uploads + 1, ty, sz)) =>
            IF ty \notin {"image/jpeg", "image/png", "image/webp"}
               \/ sz > 10 * 1024 * 1024
            THEN /\ view'.uploadError # Null
                 /\ store' = store
                 /\ store'.currentStep = "upload"
                 /\ store'.originalImage = Null
                 /\ tasks' = tasks
            ELSE /\ view'.uploadError = Null
                 /\ \E t \in tasks' \ tasks : t.kind = "upload" /\ t.file.size = sz
      ]_vars

\* A file was rejected by validation; another file of exactly 10 MB was accepted
C4_Witness ==
    /\ mounted = "upload"
    /\ view.uploadError =
         Str(<<"File is too large. Please use an image under 10MB.">>)
    /\ store.currentStep = "upload"
    /\ uploads = 1

\* C5: a successful upload records the image and moves to enhance in one store
\* update that also clears the downstream artifacts and keeps apiKey; if the
\* image processing throws the store is unchanged and the Upload card shows an
\* error.
C5_UploadSuccess ==
    [][ \A t \in tasks :
          /\ UploadProcessed(t, "ok") =>
               /\ store'.currentStep = "enhance"
               /\ store'.originalImage = t.file
               /\ store'.originalImageDataUrl # Null
               /\ store'.enhancedImageUrl = Null
               /\ store'.enhancedImageCaption = Null
               /\ store'.videoUrl = Null
               /\ store'.motionPrompt = EmptyStr
               /\ store'.userNote = EmptyStr
               /\ store'.error = Null
               /\ store'.apiKey = store.apiKey
          /\ UploadProcessed(t, "throw") =>
               /\ store' = store
               /\ t.live => view'.uploadError # Null
      ]_vars

\* The second upload has just been recorded, the Upload card is still mounted
C5_Witness ==
    /\ mounted = "upload"
    /\ store.currentStep = "enhance"
    /\ store.originalImage # Null
    /\ store.originalImage.name = 2

C7_SoftSuccessGenericCaption ==
    [][ \A t \in tasks, resp \in GeminiResponses :
          (GeminiEnhanceResponds(t, resp) /\ ~resp.image) =>
             /\ store'.enhancedImageUrl = t.img
             /\ store'.enhancedImageCaption = Str(<<"Image processed successfully">>)
      ]_vars

\* C7 as amended: a Gemini response without an image does not fail the step;
\* the original image is recorded; the caption is the generic one only when
\* the response has no text, otherwise the response's trimmed text (none if
\* that is blank).
C7_SoftSuccessCaption ==
    [][ \A t \in tasks, resp \in GeminiResponses :
          (GeminiEnhanceResponds(t, resp) /\ ~resp.image) =>
             /\ store'.enhancedImageUrl = t.img
             /\ store'.currentStep = "generate"
             /\ t.live => view'.enhanceError = Null
             /\ store'.enhancedImageCaption =
                  IF resp.text = <<>>
                  THEN Str(<<"Image processed successfully">>)
                  ELSE IF Trim(resp.text) = <<>> THEN Null
                  ELSE Str(Trim(resp.text))
      ]_vars

\* The original image was recorded as the enhanced one with the response's text
C7_Witness ==
    /\ store.enhancedImageUrl # Null
    /\ store.enhancedImageUrl = store.originalImageDataUrl
    /\ store.enhancedImageCaption = Str(<<"t">>)

\* C8: when the enhancement pipeline fails, the mounted Enhance card shows the
\* error (which carries "Try again"), the store is untouched with no enhanced
\* image and the step still enhance; "Try again" clears the error and runs the
\* pipeline again from the start, Replicate first when its token exists.
C8_EnhanceErrorAndRetry ==
    [][ /\ \A t \in tasks :
             ( /\ t.live
               /\ \/ \E e \in GeminiErrors : GeminiEnhanceThrows(t, e)
                  \/ ReplicateEnhanceDone(t, "empty") )
             => /\ view'.enhanceError # Null
                /\ ~view'.isEnhancing
                /\ store' = store
                /\ store'.enhancedImageUrl = Null
                /\ store'.currentStep = "enhance"
                /\ ~view'.autoAdvanceTimer /\ timers' = timers
        /\ EnhanceRetry =>
             /\ view'.enhanceError = Null
             /\ view'.isEnhancing
             /\ \E t \in tasks' \ tasks :
                   /\ t.kind = "enhance" /\ t.live
                   /\ t.img = store.originalImageDataUrl
                   /\ t.pc = IF ls.REPLICATE_API_TOKEN # Null
                             THEN "replicate" ELSE "gemini"
      ]_vars

\* "Try again" was clicked with a Replicate token: its Replicate call is in flight
C8_Witness ==
    /\ mounted = "enhance"
    /\ retries > 0
    /\ view.enhanceError = Null
    /\ \E t \in tasks : t.kind = "enhance" /\ t.live /\ t.pc = "replicate"

\* C9: between recording the enhanced image and the firing of the auto-advance
\* timer the step is still enhance.
C9_EnhanceStaysUntilTimer ==
    (mounted = "enhance" /\ view.hasEnhanced /\ view.autoAdvanceTimer)
        => store.currentStep = "enhance"

\* C10: between storing the video and the firing of the auto-advance timer the
\* step is still generate.
C10_GenerateStaysUntilTimer ==
    (store.videoUrl # Null /\ timers.toComplete > 0)
        => store.currentStep = "generate"

\* C11: whatever step writes a step's terminal artifact (original image,
\* enhanced image, video) writes the step transition in the same store update:
\* the state it produces has the artifact and already the next step.
C11_ArtifactWithTransition ==
    [][ /\ (store'.originalImage # store.originalImage /\ store'.originalImage # Null)
           => store'.currentStep = "enhance"
        /\ (store'.enhancedImageUrl # store.enhancedImageUrl
              /\ store'.enhancedImageUrl # Null)
           => store'.currentStep = "generate"
        /\ (store'.videoUrl # store.videoUrl /\ store'.videoUrl # Null)
           => store'.currentStep = "complete"
      ]_vars

\* setEnhancedImage has just run: the Enhance card is still mounted, the image
\* is recorded and the step is generate; no video yet
C11_Witness ==
    /\ mounted = "enhance"
    /\ store.enhancedImageUrl # Null
    /\ store.currentStep = "generate"
    /\ store.videoUrl = Null
    /\ \A t \in tasks : t.kind # "enhance"

\* The provider calls issued by a step: the tasks that are new at an await,
\* not the tasks an unmount has merely orphaned
NewCalls == {n \in tasks' : \A t \in tasks : [t EXCEPT !.live = n.live] # n}

\* C12 as claimed: an attempt that started while a Replicate token existed
\* never calls VEO.
C12_StartedWithTokenNoVeo ==
    [][ \A n \in NewCalls :
          (n.kind = "generate" /\ n.pc = "veo") => ~n.hadToken ]_vars

\* C12 as amended: the Replicate token is looked up when the video phase
\* begins, after the prompt phase. If it exists then, the attempt calls
\* Replicate directly with duration 5, 480p and 16:9 and never calls VEO,
\* neither then nor after a failure of that call.
C12_TokenSkipsVeo ==
    [][ /\ \A n \in NewCalls :
             (n.kind = "generate" /\ n.pc = "veo")
                => /\ ~Truthy(ls.REPLICATE_API_TOKEN)
                   /\ \E t \in tasks \ tasks' :
                         t.kind = "generate" /\ t.pc = "prompt"
        /\ \A t \in tasks, o \in PromptOutcomes :
             (PromptDone(t, o) /\ Truthy(ls.REPLICATE_API_TOKEN))
                => \E n \in NewCalls :
                      /\ n.kind = "generate" /\ n.pc = "replicate"
                      /\ n.img = t.img
                      /\ n.args.duration = 5
                      /\ n.args.resolution = "480p"
                      /\ n.args.aspectRatio = "16:9"
      ]_vars

\* The direct Replicate call of the mounted Generate card is in flight
C12_Witness ==
    /\ mounted = "generate"
    /\ Truthy(ls.REPLICATE_API_TOKEN)
    /\ \E t \in tasks : /\ t.kind = "generate" /\ t.live /\ t.pc = "replicate"
                        /\ t.args.duration = 5
    /\ \A t \in tasks : t.kind = "generate" => t.pc # "veo"

\* C13: the polling loop of generateVideo terminates; it polls at most 30
\* times, each poll after one 10 s wait; it does not poll once the operation
\* is done (not at all if the initial operation is done); if the operation is
\* still not done after the 30th poll the call throws the timeout error and
\* returns no video.
C13_PollLoop ==
    /\ [](\A t \in tasks : t.kind = "generateVideo" =>
            /\ t.polls <= 30
            /\ t.waits = t.polls + (IF t.pc = "wait" THEN 1 ELSE 0)
            /\ t.pc \in {"wait", "poll"} => ~t.currentOperation.done
            /\ (t.pc = "thrown" /\ t.result = VeoTimedOut)
                 => (t.polls = 30 /\ ~t.currentOperation.done)
            /\ t.pc \in {"download", "returned"} => t.currentOperation.done)
    /\ [][\A t \in tasks :
            /\ \A a \in Operations, text \in ApiErrorTexts :
                  (VeoPostResponds(t, a, text) /\ a.done)
                     => \A n \in tasks' :
                           n.polls = 0 /\ n.waits = 0 /\ n.pc # "wait"
            /\ \A a \in {NonOk} \cup Operations :
                  (VeoPollResponds(t, a) /\ t.polls = 30)
                     => \A n \in tasks' :
                           \/ n.currentOperation.done
                           \/ n.pc = "thrown" /\ n.result = VeoTimedOut ]_vars
    /\ <>(\A t \in tasks : t.kind = "generateVideo" => t.pc \in {"returned", "thrown"})

\* The 30th poll found the operation still not done and the call timed out
C13_Witness ==
    \E t \in tasks : /\ t.kind = "generateVideo"
                     /\ t.pc = "thrown" /\ t.result = VeoTimedOut
                     /\ t.polls = 30 /\ t.waits = 30

C15_TimeoutNoFallback ==
    [][ \A t \in tasks :
          (VeoDone(t, VeoTimedOut) /\ t.live /\ ~Truthy(ls.REPLICATE_API_TOKEN))
             => /\ view'.generateError =
                     Str(<<"Video generation timed out. Please try again.">>)
                /\ ~view'.isGenerating
                /\ mounted' = "generate"
                /\ store'.videoUrl = Null
                /\ store'.currentStep = "generate"
                /\ timers'.toComplete = timers.toComplete
                /\ \A n \in tasks' : n.kind = "generate" => ~n.live
      ]_vars

\* The Generate card shows the timeout error; there is no token, no video and
\* no completion timer
C15_Witness ==
    /\ mounted = "generate"
    /\ view.generateError =
          Str(<<"Video generation timed out. Please try again.">>)
    /\ ~Truthy(ls.REPLICATE_API_TOKEN)
    /\ store.videoUrl = Null
    /\ store.currentStep = "generate"
    /\ timers.toComplete = 0

\* C16: when the motion prompt cannot be obtained (service not initialised,
\* request failed, empty text) the attempt goes on: no error is shown for it
\* and the video phase runs with the fixed generic sentence as the prompt.
C16_PromptFallback ==
    [][ \A t \in tasks, o \in PromptOutcomes :
          ( /\ PromptDone(t, o)
            /\ \/ geminiAi = Null
               \/ o = Rejected
               \/ Trim(o.text) = <<>> )
          => \/ \E n \in NewCalls :
                  /\ n.kind = "generate" /\ n.pc \in {"replicate", "veo"}
                  /\ n.img = t.img
                  /\ n.prompt =
                       Str(<<"A gentle, cinematic motion around this cherished memory.">>)
                  /\ t.live => view'.generateError = Null /\ view'.isGenerating
             \/ \* the video phase ran and found no credential at all
                /\ ~Truthy(ls.REPLICATE_API_TOKEN) /\ ~Truthy(ls.GEMINI_API_KEY)
                /\ t.live => view'.generateError =
                               Str(<<"API key not found. Please set your API key.">>)
      ]_vars

\* A video call of the mounted card is in flight with the generic sentence
C16_Witness ==
    /\ mounted = "generate"
    /\ view.generateError = Null
    /\ \E t \in tasks :
          /\ t.kind = "generate" /\ t.live /\ t.pc \in {"replicate", "veo"}
          /\ t.prompt =
               Str(<<"A gentle, cinematic motion around this cherished memory.">>)

\* C17: with both credentials saved and every provider call succeeding, each
\* valid upload leads to the generate step with the enhanced image and a
\* non-empty caption, and from there to the complete step with the video of
\* that image, made by Replicate, the caption still there; VEO and the Gemini
\* enhancement are not used.
C17_HappyPath ==
    /\ \A n \in 1..MaxUploads :
         /\ (store.currentStep = "enhance" /\ store.originalImage # Null
               /\ store.originalImage.name = n)
            ~> (/\ store.currentStep = "generate"
                /\ store.enhancedImageUrl =
                      HttpUrl("replicate", Content("replicate", n))
                /\ store.enhancedImageCaption # Null
                /\ store.enhancedImageCaption.s # <<>>)
         /\ (store.currentStep = "generate"
               /\ store.enhancedImageUrl =
                     HttpUrl("replicate", Content("replicate", n)))
            ~> (/\ store.currentStep = "complete"
                /\ store.videoUrl = HttpUrl("replicate", Content("seedance", n))
                /\ store.enhancedImageCaption # Null
                /\ store.enhancedImageCaption.s # <<>>)
    /\ [](\A t \in tasks :
            /\ t.kind = "generate" => t.pc \notin {"veo", "fallback"}
            /\ t.kind = "enhance" => t.pc # "gemini")

\* C18: the enhanced image in the store is the result of a successful
\* enhancement of the original image now in the store, and the video in the
\* store is the result of a successful generation for that image; after a
\* reset or a new upload neither is left from before.
C18_ArtifactsOfCurrentImage ==
    /\ store.enhancedImageUrl # Null
          => /\ store.originalImage # Null
             /\ ContentOf(store.enhancedImageUrl).n = store.originalImage.name
    /\ store.videoUrl # Null
          => /\ store.originalImage # Null
             /\ store.videoUrl.of.n = store.originalImage.name

\* C19: canProceedToStep('generate') is true exactly when the store holds an
\* enhanced image, canProceedToStep('complete') exactly when it holds a video.
C19_CanProceed ==
    /\ canProceedToStep(store, "generate") <=> Truthy(store.enhancedImageUrl)
    /\ canProceedToStep(store, "complete") <=> Truthy(store.videoUrl)

\* C20: when a step needs the primary provider and there is no credential
\* for it (no key in localStorage for the video call, no initialised client
\* for the enhancement call), the configuration modal is shown and the card
\* of the step does not set its error.
C20_MissingCredentialNotStepError ==
    [][ \A t \in tasks :
          /\ \A o \in PromptOutcomes :
               ( /\ PromptDone(t, o) /\ t.live
                 /\ ~Truthy(ls.REPLICATE_API_TOKEN)
                 /\ ~Truthy(ls.VEO_API_KEY) /\ ~Truthy(ls.GEMINI_API_KEY) )
               => /\ showApiKeyModal'
                  /\ view'.generateError = Null
          /\ \A e \in GeminiErrors :
               (GeminiEnhanceThrows(t, e) /\ t.live /\ geminiAi = Null)
               => /\ showApiKeyModal'
                  /\ view'.enhanceError = Null
      ]_vars

\* C21: an error shown by the Enhance or the Generate card is one of the
\* fixed messages of the code and carries no text of a provider's response.
C21_FixedMessages ==
    LET Fixed ==
          { <<"API quota exceeded. Please check your Gemini API usage limits.">>,
            <<"Image was rejected for safety reasons. Please try a different image.">>,
            <<"Invalid API key. Please check your Gemini API key.">>,
            <<"Failed to enhance image. Please try again.">>,
            <<"Gemini service not initialized. Please provide an API key.">>,
            <<"No enhanced image was generated">>,
            <<"Missing required image for video generation">>,
            <<"API key not found. Please set your API key.">>,
            <<"Video generation timed out. Please try again.">>,
            <<"No video was generated.">>,
            <<"No downloadable video URI was returned.">>,
            <<"Failed to download video (HTTP 403)">>,
            <<"API quota exceeded. Please check your API usage limits.">>,
            <<"Content was rejected for safety reasons. Please try different content.">>,
            <<"Failed to generate video. Please try again.">>,
            <<"Replicate did not return an output URL.">>,
            <<"Video generation failed">> }
    IN  /\ (view.comp = "enhance" /\ view.enhanceError # Null)
              => view.enhanceError.s \in Fixed
        /\ (view.comp = "generate" /\ view.generateError # Null)
              => /\ view.generateError.s \in Fixed
                 /\ ~Includes(view.generateError.s, "body")

\* C22: a page reload keeps apiKey and userNote and nothing else: whatever
\* the state before, the store after it is at the upload step with no media
\* artifact, an empty motionPrompt, progress 0 and no error.
C22_ReloadKeepsKeyAndNote ==
    [][ Reload =>
          /\ store'.currentStep = "upload"
          /\ store'.originalImage = Null
          /\ store'.originalImageUrl = Null
          /\ store'.originalImageDataUrl = Null
          /\ store'.enhancedImageUrl = Null
          /\ store'.enhancedImageCaption = Null
          /\ store'.videoUrl = Null
          /\ store'.motionPrompt = EmptyStr
          /\ store'.progress = 0
          /\ store'.error = Null
          /\ store'.isProcessing = FALSE
          /\ store'.apiKey = store.apiKey
          /\ store'.userNote = store.userNote ]_vars

\* the page was loaded again after a run that had a key, a note and an upload
C22_Witness ==
    /\ mounted = "upload"
    /\ uploads > 0
    /\ tasks = {}
    /\ store.originalImage = Null
    /\ store.apiKey # Null
    /\ store.userNote # EmptyStr
    /\ isInitialized
    /\ ~showApiKeyModal

\* C23: a request carries a credential only as an authorization header: no
\* request sent by a VEO call has the key in its URL or in its body.
C23_KeyOnlyInHeader ==
    \A t \in tasks :
        (t.kind = "generateVideo" /\ t.pc \in {"post", "poll", "download"})
           => /\ VeoRequest(t).url = Null
              /\ VeoRequest(t).body = Null

\* C24: submitting the form saves the Gemini key only if the key is non-empty
\* and starts with "AIza"; with an empty (blank) key or another prefix the
\* form shows a validation error and the store's apiKey and the credentials
\* in localStorage stay as they were.
C24_KeyValidation ==
    [][ \A g \in GeminiInputs, r \in ReplicateInputs :
          handleSubmit(g, r) =>
             IF Trim(g) # <<>> /\ StartsWith(g, <<"A", "I", "z", "a">>)
             THEN /\ store'.apiKey = Str(Trim(g))
                  /\ ls'.GEMINI_API_KEY = Str(g)
             ELSE /\ validationError' # Null
                  /\ store'.apiKey = store.apiKey
                  /\ ls' = ls ]_vars

\* a refused submit over saved credentials: the error is shown, both are kept
C24_Witness ==
    /\ validationError \in
          { Str(<<"Please enter your Gemini API key">>),
            Str(<<"Invalid Gemini API key format. Keys should start with \"AIza\"">>) }
    /\ store.apiKey = Str(AIzaKey)
    /\ ls.GEMINI_API_KEY = Str(AIzaKey)
    /\ ls.REPLICATE_API_TOKEN = Str(R8Token)

\* C25: the store's progress is within 0..100 in every state: setProgress
\* with any integer stores max(0, min(100, input)), and every other mutator
\* that changes progress writes 0 or 100.
C25_ProgressInRange ==
    /\ [](store.progress \in 0 .. 100)
    /\ [][ /\ \A p \in ProgressInputs :
                StoreSetProgress(p) =>
                   store'.progress = IF p < 0 THEN 0 ELSE IF p > 100 THEN 100 ELSE p
           /\ ( /\ store'.progress # store.progress
                /\ ~ \E p \in ProgressInputs : StoreSetProgress(p) )
                 => store'.progress \in {0, 100} ]_vars

\* setProgress was called below 0, above 100 and in between
C25_Witness ==
    /\ store.progress = 50
    /\ store.isProcessing
    /\ store.error # Null

\* C26: the simulated progress of an enhancement attempt starts at 0, never
\* decreases and never exceeds 90 while a provider call of the attempt is in
\* flight, becomes 100 only when the pipeline returned an image, and is back
\* at 0 with the error when the attempt fails.
C26_EnhanceProgress ==
    /\ [](view.comp = "enhance" =>
            /\ view.enhanceProgress \in 0 .. 100
            /\ EnhanceInFlight(tasks) => view.enhanceProgress <= 90
            /\ view.enhanceProgress = 100 => view.hasEnhanced)
    /\ [][ view'.comp = "enhance" =>
            /\ (~EnhanceInFlight(tasks) /\ EnhanceInFlight(tasks'))
                  => view'.enhanceProgress = 0
            /\ (EnhanceInFlight(tasks) /\ EnhanceInFlight(tasks'))
                  => view'.enhanceProgress >= view.enhanceProgress
            /\ (EnhanceInFlight(tasks) /\ ~EnhanceInFlight(tasks'))
                  => \/ /\ view'.hasEnhanced
                        /\ view'.enhanceProgress = 100
                        /\ Truthy(store'.enhancedImageUrl)
                     \/ /\ ~view'.hasEnhanced
                        /\ view'.enhanceProgress = 0
                        /\ view'.enhanceError # Null ]_vars

\* a retried attempt, started again from 0, is in flight at the limit
C26_Witness ==
    /\ view.comp = "enhance"
    /\ EnhanceInFlight(tasks)
    /\ view.enhanceProgress = 90
    /\ retries > 0

\* C27: unmounting a controller clears every timer it created, so no timer
\* of an unmounted controller fires; in particular, once the workflow is back
\* at the upload step, currentStep changes only by the next upload.
C27_TeardownClearsTimers ==
    [][ /\ ~AutoAdvanceFires("orphan")
        /\ \A tm \in timers.noteDelay : NoteDelayFires(tm) => tm.live
        /\ CompleteTimerFires => mounted = "generate"
        /\ (store.currentStep = "upload" /\ store'.currentStep # "upload")
              => \E t \in tasks : UploadProcessed(t, "ok") ]_vars

\* C28: when the entry effect of a mounted Enhance or Generate card runs
\* again, no pipeline is started a second time: the repeated run issues no
\* provider call, sets no start timeout and does not touch the store, and the
\* started flag stays set.
C28_EntryEffectOnce ==
    [][ EntryEffectAgain =>
          /\ NewCalls = {}
          /\ timers' = timers
          /\ store' = store
          /\ mounted = "enhance" =>
                /\ view'.enhancementStarted = view.enhancementStarted
                /\ view'.isEnhancing = view.isEnhancing
                /\ view'.enhanceError = view.enhanceError
          /\ mounted = "generate" =>
                /\ view'.generationStarted = view.generationStarted
                /\ view'.isGenerating = view.isGenerating
                /\ view'.generateError = view.generateError ]_vars

\* the entry effect ran again while the one generation call was in flight
C28_Witness ==
    /\ mounted = "generate"
    /\ view.comp = "generate"
    /\ view.generationStarted
    /\ view.isGenerating
    /\ ~view.timerRef
    /\ \E t \in tasks : t.kind = "generate" /\ t.live

\* C29: no prompt or video provider call is issued while the store has no
\* enhanced image, and a video provider call is issued only once the prompt
\* phase has produced its prompt, which is never empty.
C29_PhasesInOrder ==
    [][ \A n \in NewCalls :
          n.kind = "generate" =>
             /\ Truthy(store.enhancedImageUrl)
             /\ n.pc \in {"replicate", "veo", "fallback"} => ~IsBlank(n.prompt) ]_vars

\* C30: at most one progress interval of the generate step is active at any
\* time: the one under the mounted card's timerRef, or one that a run started
\* for an unmounted card still holds.
C30_OneProgressTimer ==
    LET mountedTimer == IF view.comp = "generate" /\ view.timerRef THEN 1 ELSE 0
        strayTimers  == Cardinality({t \in tasks : t.kind = "generate" /\ t.stray})
    IN  mountedTimer + strayTimers <= 1

\* C31: once an attempt has ended, by success or by any failure, the progress
\* timer it started is no longer active: the Generate card's interval is
\* pending only while a call of the card is in flight, and the Enhance card's
\* progress does not move once no call of the card is in flight.
C31_TimerCancelledAtEnd ==
    /\ []((view.comp = "generate" /\ view.timerRef)
            => \E t \in tasks : t.kind = "generate" /\ t.live)
    /\ [][ ( /\ view.comp = "enhance" /\ view'.comp = "enhance"
             /\ ~EnhanceInFlight(tasks) /\ ~EnhanceInFlight(tasks') )
              => view'.enhanceProgress = view.enhanceProgress ]_vars

\* a generation attempt ended in the fallback-failed path and its timer is gone
C31_Witness ==
    /\ view.comp = "generate"
    /\ ~view.timerRef
    /\ view.generateError # Null
    /\ ~ \E t \in tasks : t.kind = "generate"
    /\ Truthy(ls.REPLICATE_API_TOKEN)
    /\ view.generateError.s # <<"API key not found. Please set your API key.">>
    /\ ~Includes(view.generateError.s, "Replicate")

\* C32: an attempt calls the text-generation provider exactly if the store's
\* motionPrompt is empty or blank when it starts; a non-blank motionPrompt goes
\* to the video provider as it is, with no text-generation call.
C32_PromptPhaseIffBlank ==
    [][ (Commit \/ GenerateRetry \/ \E tm \in timers.noteDelay : NoteDelayFires(tm))
          => \A n \in NewCalls :
                n.kind = "generate" =>
                   /\ n.pc = "prompt" <=> IsBlank(store.motionPrompt)
                   /\ ~IsBlank(store.motionPrompt) =>
                         /\ n.pc \in {"replicate", "veo"}
                         /\ n.prompt = store.motionPrompt ]_vars

\* an attempt went straight to the video provider with the stored prompt
C32_Witness ==
    \E t \in tasks : /\ t.kind = "generate" /\ t.live
                     /\ t.pc \in {"replicate", "veo"}
                     /\ t.prompt = store.motionPrompt
                     /\ store.motionPrompt = Str(<<"p">>)
                     /\ retries > 0

\* C33: the prompt phase commits its prompt: when the text call of an attempt
\* of the mounted card has settled the store's motionPrompt is non-empty, and
\* a retry issues no text call again.
C33_PromptCommitted ==
    [][ /\ \A t \in tasks, o \in PromptOutcomes :
              (PromptDone(t, o) /\ t.live) => ~IsBlank(store'.motionPrompt)
        /\ GenerateRetry => \A n \in NewCalls : n.pc # "prompt" ]_vars

\* C34: an attempt calls Replicate for the video at most once: when its direct
\* Replicate call fails, for whatever reason, no further call is issued and
\* the mounted card shows the error.
C34_ReplicateCalledOnce ==
    [][ \A t \in tasks, e \in ReplicateVideoErrors :
          ReplicateVideoDone(t, e) =>
             /\ NewCalls = {}
             /\ t.live => view'.generateError = Str(e) ]_vars

GenerateAttempts(ts) == {t \in ts : t.kind = "generate"}

\* C35: at most one generation attempt is in flight: no two attempts are
\* pending together, none is pending once a video is stored, and an attempt
\* starts only when none is pending and no video is stored.
C35_OneAttemptInFlight ==
    /\ [](Cardinality(GenerateAttempts(tasks)) <= 1)
    /\ [](Truthy(store.videoUrl) => GenerateAttempts(tasks) = {})
    /\ [][ GenerateAttempts(tasks') \ GenerateAttempts(tasks) # {}
             /\ GenerateAttempts(tasks) = {}
           => ~Truthy(store.videoUrl) ]_vars

\* C36: a status poll answered non-OK does not abort generateVideo: the
\* operation known so far is kept, the poll is counted and the loop goes on to
\* its next wait (after the 30th poll the call times out); before the
\* operation is done a poll ends the call with an error only when its request
\* throws or when it was the 30th.
C36_NonOkPollContinues ==
    [][ \A t \in tasks, a \in FetchAnswers :
          VeoPollResponds(t, a) =>
            \A n \in tasks' :
               /\ a = NonOk =>
                    /\ n.currentOperation = t.currentOperation
                    /\ n.pollCount = t.pollCount + 1
                    /\ IF n.pollCount < 30 THEN n.pc = "wait"
                       ELSE n.pc = "thrown" /\ n.result = VeoTimedOut
               /\ (n.pc = "thrown" /\ ~n.currentOperation.done) =>
                    \/ a = Rejected /\ n.result = <<"Failed", "to", "fetch">>
                    \/ n.pollCount = 30 /\ n.result = VeoTimedOut ]_vars

\* The call waits for its next poll after a poll that was answered non-OK
C36_Witness ==
    \E t \in tasks : /\ t.kind = "generateVideo"
                     /\ t.pollResponse = "nonOk"
                     /\ t.pc = "wait" /\ t.polls \in 1 .. 29
                     /\ ~t.currentOperation.done

\* The Gemini calls a step issues: generateContent of enhanceImage and of
\* generateMotionPrompt
GeminiCalls(ns) ==
    {n \in ns : \/ n.kind = "enhance" /\ n.pc = "gemini"
                \/ n.kind = "generate" /\ n.pc = "prompt"}

\* C37: the Gemini client uses the stored key: whenever a step issues a Gemini
\* call while the store's apiKey is set, the client was built with that key,
\* also after the key was replaced through the form.
C37_ClientUsesStoredKey ==
    [][ (GeminiCalls(NewCalls) # {} /\ Truthy(store'.apiKey))
          => geminiAi' = store'.apiKey ]_vars

\* C38: a submission of the form that ends in a validation error changes no
\* stored credential: with a valid Gemini key and a Replicate token that does
\* not start with "r8_", the store's apiKey and the localStorage entries
\* GEMINI_API_KEY and REPLICATE_API_TOKEN are after it what they were before.
C38_RejectedSubmitStoresNothing ==
    [][ \A g \in GeminiInputs, r \in ReplicateInputs :
          ( /\ handleSubmit(g, r)
            /\ StartsWith(g, <<"A", "I", "z", "a">>)
            /\ Trim(r) # <<>> /\ ~StartsWith(r, <<"r", "8", "_">>) )
          => /\ validationError' # Null
             /\ store'.apiKey = store.apiKey
             /\ ls'.GEMINI_API_KEY = ls.GEMINI_API_KEY
             /\ ls'.REPLICATE_API_TOKEN = ls.REPLICATE_API_TOKEN ]_vars

\* C39: currentStep is never "prompt", although "prompt" is a step and the
\* one getNextStep gives after "enhance": a stored enhancement result sets
\* the step to "generate" directly.
C39_NeverPromptStep ==
    /\ [](/\ store.currentStep \in Steps \ {"prompt"}
          /\ getNextStep("enhance") = "prompt"
          /\ getNextStep("prompt") = "generate")
    /\ [][ (store'.enhancedImageUrl # store.enhancedImageUrl
              /\ Truthy(store'.enhancedImageUrl))
           => store'.currentStep = "generate" ]_vars

\* The enhancement result has just been stored: the step is "generate" while
\* the Enhance card is still the mounted one
C39_Witness ==
    /\ store.currentStep = "generate"
    /\ mounted = "enhance"
    /\ Truthy(store.enhancedImageUrl)

====
